---- MODULE Spec2Model ----
(***************************************************************************)
(* A model of the near-Earth-object catalog: the record model (models.py), *)
(* the loaders (extract.py), the NEODatabase with its linker, lookups and  *)
(* query generator (database.py), the filter factory and limit generator   *)
(* (filters.py) and the two serializers (write.py).                        *)
(*                                                                         *)
(* Python objects are identified by their position in the list that holds  *)
(* them: a NEO reference is an index into neos, an approach reference an   *)
(* index into approaches, and the null reference is None.  Floats are      *)
(* records [nan, v] with v in hundredths; Python values handed to the      *)
(* lookups are pairs <<type name, text>>.                                  *)
(***************************************************************************)
EXTENDS Integers, Sequences, FiniteSets, TLC

VARIABLES
    phase,        \* "loading" while the loaders run, "ready" once NEODatabase exists
    neos,         \* the list of NearEarthObject instances (self._neos aliases it)
    approaches,   \* the list of CloseApproach instances (self._approaches aliases it)
    neo_dict,     \* self.neo_dict: insertion-ordered dict designation -> NEO reference
    call,         \* the last lookup performed and what it returned, printed or raised
    filters,      \* the filter collection created by create_filters / given to query
    gen,          \* the generators of the current pipeline: query, optionally limit
    out,          \* the items the pipeline has yielded so far, to whoever pulled them
    csv,          \* the file written by write_to_csv: rows and whether it raised
    json,         \* the file written by write_to_json: records and whether it raised
    rest          \* the items a later consumer pulled from the stream underneath limit

vars == <<phase, neos, approaches, neo_dict, call, filters, gen, out, csv, json, rest>>

\* ------------------------------------------------------------------ bounds
MaxNeos == 2
MaxApproaches == 3
MaxLimit == 2

\* ------------------------------------------------------------ Python values
None == 0                               \* the null object reference
PyNone == <<"NoneType", "None">>
PyStr(s) == <<"str", s>>
PyInt(s) == <<"int", s>>
isinstance_str(v) == v[1] = "str"

NaN == [nan |-> TRUE, v |-> 0]          \* float('nan')
Float(v) == [nan |-> FALSE, v |-> v]    \* a float, in hundredths
NoTime == <<>>                          \* time is None

\* str(float) / str(bool), as csv.DictWriter renders a cell
FloatStr(f) == IF f.nan THEN "nan" ELSE ToString(f.v)
BoolStr(b) == IF b THEN "True" ELSE "False"

\* ------------------------------------------------------------- input data
\* Rows of the NEO csv file: pdes, name, diameter, pha.  diameter is the raw
\* cell: parse = FALSE is a cell float() rejects (the empty cell).
NeoRows ==
    { [pdes |-> "433",   name |-> PyStr("Eros"), diameter |-> [parse |-> TRUE, v |-> 1684], pha |-> "N"],
      [pdes |-> "433",   name |-> PyStr(""),     diameter |-> [parse |-> TRUE, v |-> 0],    pha |-> "Y"],
      [pdes |-> "99942", name |-> PyStr("Eros"), diameter |-> [parse |-> TRUE, v |-> 34],   pha |-> "Y"],
      [pdes |-> "",      name |-> PyStr("Lost"), diameter |-> [parse |-> FALSE, v |-> 0],   pha |-> ""] }

\* Entries of the close-approach json file: des, cd, dist, v_rel.
\* cd is <<year, month abbreviation, day, hour, minute>>.
CadEntries ==
    { [des |-> "433",   cd |-> <<2020, "Jan", 1, 0, 0>>,   dist |-> 15, v_rel |-> 520],
      [des |-> "",    cd |-> <<2029, "Apr", 13, 21, 46>>, dist |-> 40, v_rel |-> 740] }

\* ------------------------------------------------------------- helpers.py
MonthNumber ==
    [b \in {"Jan", "Feb", "Mar", "Apr", "May", "Jun",
            "Jul", "Aug", "Sep", "Oct", "Nov", "Dec"} |->
        CASE b = "Jan" -> 1 [] b = "Feb" -> 2 [] b = "Mar" -> 3 [] b = "Apr" -> 4
          [] b = "May" -> 5 [] b = "Jun" -> 6 [] b = "Jul" -> 7 [] b = "Aug" -> 8
          [] b = "Sep" -> 9 [] b = "Oct" -> 10 [] b = "Nov" -> 11 [] b = "Dec" -> 12]

\* cd_to_datetime: "%Y-%b-%d %H:%M" to a datetime <<year, month, day, hour, minute>>
cd_to_datetime(cd) == <<cd[1], MonthNumber[cd[2]], cd[3], cd[4], cd[5]>>

\* Helper.parse_hazardous: raw Y/N/absent to a boolean, unknown as false
parse_hazardous(pha) == pha = "Y"

\* --------------------------------------------------------------- models.py
\* NearEarthObject.__init__
NearEarthObject(designation, name, diameter, hazardous) ==
    [ designation |-> designation,
      name        |-> IF name # PyNone /\ name # PyStr("") THEN PyStr(name[2]) ELSE PyNone,
      diameter    |-> IF diameter.parse /\ diameter.v > 0 THEN Float(diameter.v) ELSE NaN,
      hazardous   |-> hazardous,
      approaches  |-> <<>> ]

\* CloseApproach.__init__
CloseApproach(designation, time, distance, velocity) ==
    [ designation |-> IF designation # "" THEN designation ELSE "Unknown",
      time        |-> IF time # <<>> THEN cd_to_datetime(time) ELSE NoTime,
      distance    |-> distance,
      velocity    |-> velocity,
      neo         |-> None ]

\* -------------------------------------------------------------- extract.py
\* load_neos, one row of the reader: rows without pdes are dropped
load_neos(row) ==
    /\ phase = "loading"
    /\ Len(neos) < MaxNeos
    /\ neos' = IF row.pdes # ""
               THEN Append(neos, NearEarthObject(row.pdes, row.name, row.diameter,
                                                 parse_hazardous(row.pha)))
               ELSE neos
    /\ UNCHANGED <<phase, approaches, neo_dict, call, filters, gen, out, csv, json, rest>>

\* load_approaches, one entry of data['data']
load_approaches(entry) ==
    /\ phase = "loading"
    /\ Len(approaches) < MaxApproaches
    /\ approaches' = Append(approaches,
                            CloseApproach(entry.des, entry.cd, Float(entry.dist), Float(entry.v_rel)))
    /\ UNCHANGED <<phase, neos, neo_dict, call, filters, gen, out, csv, json, rest>>

\* ------------------------------------------------------------- database.py
\* An insertion-ordered dict is a sequence of [key, value] items.
DictKeys(d) == {d[j].key : j \in 1..Len(d)}

\* variant: a key already present keeps its first value
DictSet_first_wins(d, k, v) ==
    IF k \in DictKeys(d) THEN d ELSE Append(d, [key |-> k, value |-> v])

\* d[k] = v: a key already present keeps its position and takes the new value
DictSet(d, k, v) ==
    IF k \in DictKeys(d)
    THEN [j \in 1..Len(d) |-> IF d[j].key = k THEN [key |-> k, value |-> v] ELSE d[j]]
    ELSE Append(d, [key |-> k, value |-> v])

\* d.get(k): the value, or None
DictGet(d, k) ==
    IF k \in DictKeys(d)
    THEN (CHOOSE it \in {d[j] : j \in 1..Len(d)} : it.key = k).value
    ELSE None

\* variant: the values in reverse insertion order
DictValues_reversed(d) == [j \in 1..Len(d) |-> d[Len(d) + 1 - j].value]

\* d.values(), in insertion order
DictValues(d) == [j \in 1..Len(d) |-> d[j].value]

\* {neo.designation: neo for neo in neos}, from the i-th NEO on
RECURSIVE DictComprehension(_, _, _)
DictComprehension(d, ns, i) ==
    IF i > Len(ns) THEN d
    ELSE DictComprehension(DictSet(d, ns[i].designation, i), ns, i + 1)

\* variant: the approach is appended to its NEO but its neo reference is not set
LinkApproach_no_backref(d, heap, i) ==
    LET neo == DictGet(d, heap.approaches[i].designation) IN
    IF neo # None
    THEN [ approaches |-> heap.approaches,
           neos |-> [heap.neos EXCEPT ![neo].approaches = Append(@, i)] ]
    ELSE heap

\* variant: an approach without a matching NEO is given the first NEO of the index
LinkApproach_default_first(d, heap, i) ==
    LET found == DictGet(d, heap.approaches[i].designation)
        neo == IF found = None /\ Len(d) > 0 THEN d[1].value ELSE found
    IN
    IF neo # None
    THEN [ approaches |-> [heap.approaches EXCEPT ![i].neo = neo],
           neos |-> [heap.neos EXCEPT ![neo].approaches = Append(@, i)] ]
    ELSE heap

\* The body of the linking loop for the i-th approach; heap is [neos, approaches].
LinkApproach(d, heap, i) ==
    LET neo == DictGet(d, heap.approaches[i].designation) IN
    IF neo # None
    THEN [ approaches |-> [heap.approaches EXCEPT ![i].neo = neo],
           neos |-> IF "approaches" \in DOMAIN heap.neos[neo]
                    THEN [heap.neos EXCEPT ![neo].approaches = Append(@, i)]
                    ELSE [heap.neos EXCEPT ![neo].approaches = <<i>>] ]
    ELSE heap

\* for approach in approaches: ..., from the i-th approach on
RECURSIVE LinkAll(_, _, _)
LinkAll(d, heap, i) ==
    IF i > Len(heap.approaches) THEN heap
    ELSE LinkAll(d, LinkApproach(d, heap, i), i + 1)

Idle == [op |-> "none"]
NoGen == [kind |-> "none"]
NoCsv == [written |-> FALSE]
NoJson == [written |-> FALSE]

\* NEODatabase.__init__
NEODatabase ==
    /\ phase = "loading"
    /\ LET d == DictComprehension(<<>>, neos, 1)
           heap == LinkAll(d, [neos |-> neos, approaches |-> approaches], 1)
       IN /\ neo_dict' = d
          /\ neos' = heap.neos
          /\ approaches' = heap.approaches
    /\ phase' = "ready"
    /\ UNCHANGED <<call, filters, gen, out, csv, json, rest>>

\* variant: an argument that is not a string raises instead of returning None
get_neo_by_designation_raising(designation) ==
    IF ~isinstance_str(designation)
    THEN [ret |-> None, printed |-> "", raised |-> TRUE]
    ELSE IF designation = PyStr("")
    THEN [ret |-> None, printed |-> "Input error: Designation cannot be empty.", raised |-> FALSE]
    ELSE LET neo == DictGet(neo_dict, designation[2]) IN
         IF neo # None
         THEN [ret |-> neo, printed |-> "", raised |-> FALSE]
         ELSE [ret |-> None, printed |-> "Search error: NEO with designation not found.", raised |-> FALSE]

\* NEODatabase.get_neo_by_designation: what it returns and prints
get_neo_by_designation(designation) ==
    IF ~isinstance_str(designation)
    THEN [ret |-> None, printed |-> "Input error: Designation must be a string.", raised |-> FALSE]
    ELSE IF designation = PyStr("")
    THEN [ret |-> None, printed |-> "Input error: Designation cannot be empty.", raised |-> FALSE]
    ELSE LET neo == DictGet(neo_dict, designation[2]) IN
         IF neo # None
         THEN [ret |-> neo, printed |-> "", raised |-> FALSE]
         ELSE [ret |-> None, printed |-> "Search error: NEO with designation not found.", raised |-> FALSE]

\* for neo in self.neo_dict.values(): if neo.name == name: return ...
RECURSIVE NameScan(_, _, _)
NameScan(values, name, j) ==
    IF j > Len(values) THEN None
    ELSE IF neos[values[j]].name = name
         THEN DictGet(neo_dict, neos[values[j]].designation)
         ELSE NameScan(values, name, j + 1)

\* NEODatabase.get_neo_by_name: what it returns and prints
get_neo_by_name(name) ==
    IF ~isinstance_str(name)
    THEN [ret |-> None, printed |-> "Input error: Name must be a string.", raised |-> FALSE]
    ELSE IF name = PyStr("")
    THEN [ret |-> None, printed |-> "Input error: Name cannot be empty.", raised |-> FALSE]
    ELSE LET neo == NameScan(DictValues(neo_dict), name, 1) IN
         IF neo # None
         THEN [ret |-> neo, printed |-> "", raised |-> FALSE]
         ELSE [ret |-> None, printed |-> "Search error: NEO with name not found.", raised |-> FALSE]

\* The arguments the lookups are called with: strings present and absent as
\* designation or name, the empty string, and values that are not strings.
LookupArgs ==
    { PyStr("433"), PyStr("99942"), PyStr("Eros"), PyStr("eros"),
      PyStr(""), PyInt("433"), PyNone }

\* a call of db.get_neo_by_designation(designation)
LookupByDesignation(designation) ==
    /\ phase = "ready" /\ gen.kind = "none"
    /\ call' = [op |-> "get_neo_by_designation", arg |-> designation]
               @@ get_neo_by_designation(designation)
    /\ filters' = <<>> /\ gen' = NoGen /\ out' = <<>> /\ csv' = NoCsv /\ json' = NoJson /\ rest' = <<>>
    /\ UNCHANGED <<phase, neos, approaches, neo_dict>>

\* a call of db.get_neo_by_name(name)
LookupByName(name) ==
    /\ phase = "ready" /\ gen.kind = "none"
    /\ call' = [op |-> "get_neo_by_name", arg |-> name] @@ get_neo_by_name(name)
    /\ filters' = <<>> /\ gen' = NoGen /\ out' = <<>> /\ csv' = NoCsv /\ json' = NoJson /\ rest' = <<>>
    /\ UNCHANGED <<phase, neos, approaches, neo_dict>>

\* -------------------------------------------------------------- filters.py
\* A filter is [kind, op, value]; kind selects the subclass and its get.
DateOf(time) == <<time[1], time[2], time[3]>>           \* datetime.date()
DateKey(d) == d[1] * 10000 + d[2] * 100 + d[3]          \* chronological order of dates

\* DateFilter.get .. HazardousFilter.get raise AttributeError on a None they dereference
FilterRaises(f, a) ==
    CASE f.kind = "Date" -> a.time = NoTime
      [] f.kind = "Diameter" -> a.neo = None
      [] f.kind = "Hazardous" -> a.neo = None
      [] OTHER -> FALSE

\* operator.eq / ge / le on floats: every comparison with nan is false
FloatOp(op, x, y) ==
    /\ ~x.nan /\ ~y.nan
    /\ CASE op = "eq" -> x.v = y.v [] op = "ge" -> x.v >= y.v [] op = "le" -> x.v <= y.v

DateOp(op, x, y) ==
    CASE op = "eq" -> DateKey(x) = DateKey(y)
      [] op = "ge" -> DateKey(x) >= DateKey(y)
      [] op = "le" -> DateKey(x) <= DateKey(y)

\* AttributeFilter.__call__: self.op(self.get(approach), self.value)
FilterCall(f, a) ==
    CASE f.kind = "Date" -> DateOp(f.op, DateOf(a.time), f.value)
      [] f.kind = "Distance" -> FloatOp(f.op, a.distance, f.value)
      [] f.kind = "Velocity" -> FloatOp(f.op, a.velocity, f.value)
      [] f.kind = "Diameter" -> FloatOp(f.op, neos[a.neo].diameter, f.value)
      [] f.kind = "Hazardous" -> neos[a.neo].hazardous = f.value

\* Python truth value of an option: None, 0.0 and False are false
Truthy(v) ==
    CASE v[1] = "NoneType" -> FALSE
      [] v[1] = "float" -> v[2].nan \/ v[2].v # 0
      [] v[1] = "bool" -> v[2]
      [] OTHER -> TRUE

AppendIf(cond, fs, f) == IF cond THEN Append(fs, f) ELSE fs

\* create_filters: the list it returns
create_filters(o) ==
    LET f1 == AppendIf(Truthy(o.date), <<>>, [kind |-> "Date", op |-> "eq", value |-> o.date[2]])
        f2 == AppendIf(Truthy(o.start_date), f1, [kind |-> "Date", op |-> "ge", value |-> o.start_date[2]])
        f3 == AppendIf(Truthy(o.end_date), f2, [kind |-> "Date", op |-> "le", value |-> o.end_date[2]])
        f4 == AppendIf(Truthy(o.distance_min), f3, [kind |-> "Distance", op |-> "ge", value |-> o.distance_min[2]])
        f5 == AppendIf(Truthy(o.distance_max), f4, [kind |-> "Distance", op |-> "le", value |-> o.distance_max[2]])
        f6 == AppendIf(Truthy(o.velocity_min), f5, [kind |-> "Velocity", op |-> "ge", value |-> o.velocity_min[2]])
        f7 == AppendIf(Truthy(o.velocity_max), f6, [kind |-> "Velocity", op |-> "le", value |-> o.velocity_max[2]])
        f8 == AppendIf(Truthy(o.diameter_min), f7, [kind |-> "Diameter", op |-> "ge", value |-> o.diameter_min[2]])
        f9 == AppendIf(Truthy(o.diameter_max), f8, [kind |-> "Diameter", op |-> "le", value |-> o.diameter_max[2]])
    IN  AppendIf(o.hazardous # PyNone, f9, [kind |-> "Hazardous", op |-> "eq", value |-> o.hazardous[2]])

\* The command-line options create_filters is called with.
NoOptions ==
    [ date |-> PyNone, start_date |-> PyNone, end_date |-> PyNone,
      distance_min |-> PyNone, distance_max |-> PyNone,
      velocity_min |-> PyNone, velocity_max |-> PyNone,
      diameter_min |-> PyNone, diameter_max |-> PyNone, hazardous |-> PyNone ]

OptionNames ==
    << "date", "start_date", "end_date", "distance_min", "distance_max",
       "velocity_min", "velocity_max", "diameter_min", "diameter_max", "hazardous" >>

\* the values an option is given when it is the only one set
OptionValues(k) ==
    CASE k \in {"date", "start_date", "end_date"} -> { }
      [] k \in {"distance_min", "distance_max"} -> { <<"float", Float(0)>> }
      [] k \in {"velocity_min", "velocity_max"} -> { <<"float", Float(0)>> }
      [] k \in {"diameter_min", "diameter_max"} -> { <<"float", Float(0)>> }
      [] k = "hazardous" -> { <<"bool", FALSE>>, <<"bool", TRUE>> }

OptionSamples ==
    {NoOptions}
    \cup UNION { {[NoOptions EXCEPT ![OptionNames[j]] = v] : v \in OptionValues(OptionNames[j])} : j \in 1..10 }
    \cup { [NoOptions EXCEPT !.distance_max = <<"float", Float(20)>>, !.velocity_min = <<"float", Float(600)>>],
           [NoOptions EXCEPT !.velocity_max = <<"float", Float(0)>>, !.hazardous = <<"bool", FALSE>>],
           [ date |-> <<"date", <<2020, 1, 1>>>>, start_date |-> <<"date", <<2020, 1, 1>>>>,
             end_date |-> <<"date", <<2020, 1, 1>>>>,
             distance_min |-> <<"float", Float(20)>>, distance_max |-> <<"float", Float(20)>>,
             velocity_min |-> <<"float", Float(600)>>, velocity_max |-> <<"float", Float(600)>>,
             diameter_min |-> <<"float", Float(100)>>, diameter_max |-> <<"float", Float(100)>>,
             hazardous |-> <<"bool", TRUE>> ] }

\* a call of create_filters(**options)
CreateFilters(o) ==
    /\ phase = "ready" /\ gen.kind = "none"
    /\ call' = [op |-> "create_filters", arg |-> o]
    /\ filters' = create_filters(o)
    /\ gen' = NoGen /\ out' = <<>> /\ csv' = NoCsv /\ json' = NoJson /\ rest' = <<>>
    /\ UNCHANGED <<phase, neos, approaches, neo_dict>>

\* --------------------------------------------------------------- generators
\* One resumption of the generator returns [g, item]: the generator's new
\* state and the item it yields, None when it ends (StopIteration).

\* variant: the loop stops one approach early
query_next_stops_early(g) ==
    IF g.qdone THEN [g |-> g, item |-> None]
    ELSE IF g.pos + 1 < Len(approaches)
         THEN [g |-> [g EXCEPT !.pos = @ + 1], item |-> g.pos + 1]
         ELSE [g |-> [g EXCEPT !.qdone = TRUE], item |-> None]

\* NEODatabase.query: for approach in self._approaches: yield approach
query_next(g) ==
    IF g.qdone THEN [g |-> g, item |-> None]
    ELSE IF g.pos < Len(approaches)
         THEN [g |-> [g EXCEPT !.pos = @ + 1], item |-> g.pos + 1]
         ELSE [g |-> [g EXCEPT !.qdone = TRUE], item |-> None]

\* variant: the break is taken at i > n
limit_next_off_by_one(g) ==
    IF g.ldone THEN [g |-> g, item |-> None]
    ELSE LET r == query_next(g) IN
         IF g.n = PyNone \/ g.n[2] <= 0
         THEN [g |-> [r.g EXCEPT !.ldone = (r.item = None)], item |-> r.item]
         ELSE IF r.item = None
              THEN [g |-> [r.g EXCEPT !.ldone = TRUE], item |-> None]
              ELSE IF g.i > g.n[2]
                   THEN [g |-> [r.g EXCEPT !.ldone = TRUE], item |-> None]
                   ELSE [g |-> [r.g EXCEPT !.i = @ + 1], item |-> r.item]

\* variant: at the break the rest of the iterator is drained
limit_next_drains(g) ==
    IF g.ldone THEN [g |-> g, item |-> None]
    ELSE LET r == query_next(g) IN
         IF g.n = PyNone \/ g.n[2] <= 0
         THEN [g |-> [r.g EXCEPT !.ldone = (r.item = None)], item |-> r.item]
         ELSE IF r.item = None
              THEN [g |-> [r.g EXCEPT !.ldone = TRUE], item |-> None]
              ELSE IF g.i >= g.n[2]
                   THEN [g |-> [r.g EXCEPT !.ldone = TRUE, !.pos = Len(approaches),
                                           !.qdone = TRUE],
                         item |-> None]
                   ELSE [g |-> [r.g EXCEPT !.i = @ + 1], item |-> r.item]

\* limit: yield from iterator, or the enumerate loop with its break
limit_next(g) ==
    IF g.ldone THEN [g |-> g, item |-> None]
    ELSE LET r == query_next(g) IN
         IF g.n = PyNone \/ g.n[2] <= 0
         THEN [g |-> [r.g EXCEPT !.ldone = (r.item = None)], item |-> r.item]
         ELSE IF r.item = None
              THEN [g |-> [r.g EXCEPT !.ldone = TRUE], item |-> None]
              ELSE IF g.i >= g.n[2]
                   THEN [g |-> [r.g EXCEPT !.ldone = TRUE], item |-> None]
                   ELSE [g |-> [r.g EXCEPT !.i = @ + 1], item |-> r.item]

\* next() on the outermost generator of the pipeline
pipeline_next(g) == IF g.kind = "limit" THEN limit_next(g) ELSE query_next(g)
pipeline_done(g) == IF g.kind = "limit" THEN g.ldone ELSE g.qdone

\* variant: the call links the approaches to their NEOs once more
Query_relinking ==
    /\ phase = "ready" /\ gen.kind = "none"
    /\ gen' = [kind |-> "query", pos |-> 0, qdone |-> FALSE]
    /\ LET heap == LinkAll(neo_dict, [neos |-> neos, approaches |-> approaches], 1)
       IN neos' = heap.neos /\ approaches' = heap.approaches
    /\ out' = <<>> /\ call' = Idle /\ csv' = NoCsv /\ json' = NoJson /\ rest' = <<>>
    /\ UNCHANGED <<phase, neo_dict, filters>>

\* a call of db.query(filters): creates the generator, runs nothing yet
Query ==
    /\ phase = "ready" /\ gen.kind = "none"
    /\ gen' = [kind |-> "query", pos |-> 0, qdone |-> FALSE]
    /\ out' = <<>> /\ call' = Idle /\ csv' = NoCsv /\ json' = NoJson /\ rest' = <<>>
    /\ UNCHANGED <<phase, neos, approaches, neo_dict, filters>>

LimitArgs == {PyNone} \cup { <<"int", k>> : k \in -1..MaxLimit }

\* a call of limit(results, n) on the fresh query generator
Limit(n) ==
    /\ gen.kind = "query" /\ gen.pos = 0 /\ ~gen.qdone
    /\ gen' = [kind |-> "limit", pos |-> 0, qdone |-> FALSE, n |-> n, i |-> 0, ldone |-> FALSE]
    /\ UNCHANGED <<phase, neos, approaches, neo_dict, call, filters, out, csv, json, rest>>

\* the consumer pulls one item from the pipeline
Pull ==
    /\ gen.kind # "none" /\ ~csv.written /\ ~json.written /\ ~pipeline_done(gen)
    /\ LET r == pipeline_next(gen) IN
         /\ gen' = r.g
         /\ out' = IF r.item # None THEN Append(out, r.item) ELSE out
    /\ UNCHANGED <<phase, neos, approaches, neo_dict, call, filters, csv, json, rest>>

\* the consumer stops iterating and lets go of the pipeline, wherever it stands
Drop ==
    /\ gen.kind # "none"
    /\ gen' = NoGen /\ out' = <<>> /\ csv' = NoCsv /\ json' = NoJson /\ rest' = <<>> /\ filters' = <<>>
    /\ UNCHANGED <<phase, neos, approaches, neo_dict, call>>

\* ---------------------------------------------------------------- write.py
Pad2(k) == IF k < 10 THEN "0" \o ToString(k) ELSE ToString(k)

\* datetime.strftime("%Y-%m-%d %H:%M")
strftime(t) ==
    ToString(t[1]) \o "-" \o Pad2(t[2]) \o "-" \o Pad2(t[3]) \o " " \o Pad2(t[4]) \o ":" \o Pad2(t[5])

\* the body of the for loop of write_to_csv: the row written for one approach
CsvRow(a) ==
    LET neo == neos[a.neo]
        neo_name == IF neo.name # PyNone THEN neo.name[2] ELSE ""
        neo_diameter == IF "diameter_km" \in DOMAIN neo THEN FloatStr(neo.diameter_km) ELSE "nan"
        neo_hazardous == IF "potentially_hazardous" \in DOMAIN neo
                         THEN BoolStr(neo.potentially_hazardous) ELSE "False"
    IN [ datetime_utc |-> strftime(a.time),
         distance_au |-> FloatStr(a.distance),
         velocity_km_s |-> FloatStr(a.velocity),
         designation |-> neo.designation,
         name |-> neo_name,
         diameter_km |-> neo_diameter,
         potentially_hazardous |-> neo_hazardous ]

\* neo.name on a None neo, or approach.time.strftime on a None time, raises AttributeError
CsvRowRaises(a) == a.neo = None \/ a.time = NoTime

\* for approach in results: ..., until the stream ends or a row raises
RECURSIVE CsvLoop(_, _, _)
CsvLoop(g, rows, pulled) ==
    LET r == pipeline_next(g) IN
    IF r.item = None
    THEN [g |-> r.g, rows |-> rows, pulled |-> pulled, raised |-> FALSE]
    ELSE IF CsvRowRaises(approaches[r.item])
         THEN [g |-> r.g, rows |-> rows, pulled |-> Append(pulled, r.item), raised |-> TRUE]
         ELSE CsvLoop(r.g, Append(rows, CsvRow(approaches[r.item])), Append(pulled, r.item))

\* a call of write_to_csv(results, filename) on the pipeline
write_to_csv ==
    /\ gen.kind # "none" /\ ~csv.written /\ ~json.written
    /\ LET w == CsvLoop(gen, <<>>, <<>>) IN
         /\ gen' = w.g
         /\ out' = out \o w.pulled
         /\ csv' = [written |-> TRUE, rows |-> w.rows, pulled |-> w.pulled, raised |-> w.raised]
    /\ UNCHANGED <<phase, neos, approaches, neo_dict, call, filters, json, rest>>

\* datetime_to_str: a datetime as "%Y-%m-%d %H:%M"
datetime_to_str(t) == strftime(t)

\* NearEarthObject.serialize
NeoSerialize(neo) ==
    [ designation |-> neo.designation,
      name |-> IF neo.name # PyNone THEN neo.name[2] ELSE "",
      diameter_km |-> IF ~neo.diameter.nan THEN neo.diameter ELSE NaN,
      potentially_hazardous |-> neo.hazardous ]

\* CloseApproach.serialize
ApproachSerialize(a) ==
    [ datetime_utc |-> datetime_to_str(a.time),
      distance_au |-> a.distance,
      velocity_km_s |-> a.velocity ]

\* the body of the for loop of write_to_json: the record appended for one approach
JsonRecord(a) == ApproachSerialize(a) @@ [neo |-> NeoSerialize(neos[a.neo])]

\* datetime_to_str on a None time, or approach.neo.serialize() on a None neo, raises
JsonRecordRaises(a) == a.time = NoTime \/ a.neo = None

\* for approach in results: ..., until the stream ends or a record raises
RECURSIVE JsonLoop(_, _, _)
JsonLoop(g, data_to_write, pulled) ==
    LET r == pipeline_next(g) IN
    IF r.item = None
    THEN [g |-> r.g, records |-> data_to_write, pulled |-> pulled, raised |-> FALSE]
    ELSE IF JsonRecordRaises(approaches[r.item])
         THEN [g |-> r.g, records |-> <<>>, pulled |-> Append(pulled, r.item), raised |-> TRUE]
         ELSE JsonLoop(r.g, Append(data_to_write, JsonRecord(approaches[r.item])),
                       Append(pulled, r.item))

\* a call of write_to_json(results, filename) on the pipeline; the file is
\* opened and dumped only after the loop, so a raise leaves no record
write_to_json ==
    /\ gen.kind # "none" /\ ~csv.written /\ ~json.written
    /\ LET w == JsonLoop(gen, <<>>, <<>>) IN
         /\ gen' = w.g
         /\ out' = out \o w.pulled
         /\ json' = [written |-> TRUE, records |-> w.records, pulled |-> w.pulled,
                     raised |-> w.raised]
    /\ UNCHANGED <<phase, neos, approaches, neo_dict, call, filters, csv, rest>>

\* a later consumer pulls one item from the query generator that limit was
\* given, after limit has ended
PullUnderlying ==
    /\ gen.kind = "limit" /\ gen.ldone /\ ~gen.qdone
    /\ LET r == query_next(gen) IN
         /\ gen' = r.g
         /\ rest' = IF r.item # None THEN Append(rest, r.item) ELSE rest
    /\ UNCHANGED <<phase, neos, approaches, neo_dict, call, filters, out, csv, json>>

Init ==
    /\ phase = "loading"
    /\ neos = <<>>
    /\ approaches = <<>>
    /\ neo_dict = <<>>
    /\ call = Idle
    /\ filters = <<>>
    /\ gen = NoGen
    /\ out = <<>>
    /\ csv = NoCsv
    /\ json = NoJson
    /\ rest = <<>>

Next ==
    \/ \E row \in NeoRows : load_neos(row)
    \/ \E entry \in CadEntries : load_approaches(entry)
    \/ NEODatabase
    \/ \E designation \in LookupArgs : LookupByDesignation(designation)
    \/ \E name \in LookupArgs : LookupByName(name)
    \/ \E o \in OptionSamples : CreateFilters(o)
    \/ Query
    \/ \E n \in LimitArgs : Limit(n)
    \/ Pull
    \/ Drop
    \/ write_to_csv
    \/ write_to_json
    \/ PullUnderlying

Spec == Init /\ [][Next]_vars

\* ==================================================================
\* Properties
\* ==================================================================
Range(q) == {q[j] : j \in 1..Len(q)}
Stored == [j \in 1..Len(approaches) |-> j]      \* the stored approaches, in storage order
IsPrefix(p, q) == Len(p) <= Len(q) /\ \A j \in 1..Len(p) : p[j] = q[j]
Min(x, y) == IF x <= y THEN x ELSE y

\* every filter of the collection returns true for the approach
PassesAll(a) ==
    \A j \in 1..Len(filters) :
        ~FilterRaises(filters[j], approaches[a]) /\ FilterCall(filters[j], approaches[a])

\* C1: query(filters) yields a stored approach if and only if every filter of
\* the collection returns true for it: nothing the query has yielded fails a
\* filter, and once the query has ended it has yielded exactly the stored
\* approaches that pass all filters, in storage order.
C1_QueryYieldsIffAllFiltersTrue ==
    gen.kind = "query" =>
        /\ \A j \in 1..Len(out) : PassesAll(out[j])
        /\ gen.qdone => out = SelectSeq(Stored, LAMBDA a : PassesAll(a))

\* C2: query(()) with an empty filter collection yields exactly the stored
\* approaches, each once, in storage order: what has been yielded is always a
\* prefix of the stored sequence and, once the query has ended, all of it.
C2_EmptyQueryYieldsAllInOrder ==
    (gen.kind = "query" /\ filters = <<>>) =>
        /\ IsPrefix(out, Stored)
        /\ gen.qdone => out = Stored

\* C2 witness: an unfiltered query has ended after yielding two approaches,
\* one of which has a null neo reference.
C2_Witness ==
    /\ gen.kind = "query" /\ filters = <<>> /\ gen.qdone
    /\ Len(out) = 2
    /\ \E j \in 1..Len(out) : approaches[out[j]].neo = None

IndexedNeos == {neo_dict[j].value : j \in 1..Len(neo_dict)}
StrictlyIncreasing(q) == \A j, k \in 1..Len(q) : j < k => q[j] < q[k]

\* C3: after construction the link relation is consistent in both directions:
\* every approach in the approaches of an indexed NEO refers back to that NEO,
\* and every stored approach whose designation is that of an indexed NEO occurs
\* exactly once in that NEO's approaches, which are in input order.
C3_LinkBidirectional ==
    phase = "ready" =>
        /\ \A n \in IndexedNeos : \A j \in 1..Len(neos[n].approaches) :
               approaches[neos[n].approaches[j]].neo = n
        /\ \A n \in IndexedNeos : StrictlyIncreasing(neos[n].approaches)
        /\ \A a \in 1..Len(approaches) : \A n \in IndexedNeos :
               neos[n].designation = approaches[a].designation =>
                   Cardinality({j \in 1..Len(neos[n].approaches) : neos[n].approaches[j] = a}) = 1

\* C3 witness: a constructed catalog in which one indexed NEO has two approaches.
C3_Witness ==
    /\ phase = "ready"
    /\ \E n \in IndexedNeos : Len(neos[n].approaches) = 2

Unmatched(a) == \A n \in IndexedNeos : neos[n].designation # approaches[a].designation

\* C4: an approach whose designation matches no NEO of the index has a null
\* neo reference after construction, is in no NEO's approaches, and is still
\* stored: an unfiltered query that has ended has yielded it.
C4_UnmatchedStaysUnlinked ==
    phase = "ready" =>
        \A a \in 1..Len(approaches) : Unmatched(a) =>
            /\ approaches[a].neo = None
            /\ \A n \in 1..Len(neos) : a \notin Range(neos[n].approaches)
            /\ (gen.kind = "query" /\ filters = <<>> /\ gen.qdone) => a \in Range(out)

\* C4 witness: a catalog with an NEO and an approach matching none, which an
\* ended unfiltered query has yielded.
C4_Witness ==
    /\ phase = "ready" /\ Len(neos) > 0
    /\ gen.kind = "query" /\ filters = <<>> /\ gen.qdone
    /\ \E a \in 1..Len(approaches) : Unmatched(a) /\ a \in Range(out)

ValidArg(v) == isinstance_str(v) /\ v # PyStr("")
WithDesignation(D) == {n \in 1..Len(neos) : neos[n].designation = D}
Last(S) == CHOOSE n \in S : \A m \in S : m <= n
First(S) == CHOOSE n \in S : \A m \in S : n <= m

\* C5: for a non-empty string D, get_neo_by_designation(D) returns the last
\* supplied NEO whose designation is D, and None when no supplied NEO has it.
C5_DesignationLookup ==
    (call.op = "get_neo_by_designation" /\ ValidArg(call.arg)) =>
        IF WithDesignation(call.arg[2]) # {}
        THEN /\ call.ret = Last(WithDesignation(call.arg[2]))
             /\ neos[call.ret].designation = call.arg[2]
        ELSE call.ret = None

\* C5 witness: a lookup returned the second of two NEOs sharing the designation.
C5_Witness ==
    /\ call.op = "get_neo_by_designation" /\ ValidArg(call.arg)
    /\ call.ret # None
    /\ Cardinality(WithDesignation(call.arg[2])) >= 2

IsLookup(c) == c.op \in {"get_neo_by_designation", "get_neo_by_name"}
IndexHas(c) ==
    IF c.op = "get_neo_by_designation"
    THEN \E n \in IndexedNeos : neos[n].designation = c.arg[2]
    ELSE \E n \in IndexedNeos : neos[n].name = c.arg

\* C6: a step in which a lookup is called with an argument that is not a
\* string or is the empty string, or with a string the index does not hold,
\* returns None, raises nothing and leaves the catalog as it was.
C6_InvalidOrMissReturnsNone ==
    [][ (IsLookup(call') /\ (~ValidArg(call'.arg) \/ ~IndexHas(call')))
          => (/\ call'.ret = None
              /\ ~call'.raised
              /\ UNCHANGED <<neos, approaches, neo_dict>>) ]_vars

\* C6 witness: both lookups have been called with a value that is not a
\* string or is empty, and returned None.
C6_Witness ==
    /\ IsLookup(call) /\ ~ValidArg(call.arg)
    /\ call.ret = None /\ ~call.raised
    /\ Len(neos) > 0

WithName(N) == {n \in 1..Len(neos) : neos[n].name = N}

\* C7 (as stated): for a non-empty string N, get_neo_by_name(N) returns the
\* first supplied NEO whose name is N, and None exactly when no supplied NEO
\* has that name, also when NEOs share a designation.
C7_FirstSuppliedByName ==
    (call.op = "get_neo_by_name" /\ ValidArg(call.arg)) =>
        IF WithName(call.arg) # {}
        THEN call.ret = First(WithName(call.arg))
        ELSE call.ret = None

\* the NEOs the index retains: for each designation the last one supplied
Retained == {n \in 1..Len(neos) : \A m \in 1..Len(neos) :
                 neos[m].designation = neos[n].designation => m <= n}
\* the place of an NEO's designation in the index: its first occurrence
FirstOccurrence(n) == First(WithDesignation(neos[n].designation))
RetainedWithName(N) == {n \in Retained : neos[n].name = N}

\* C7 (amended): for a non-empty string N, get_neo_by_name(N) returns, among
\* the NEOs the index retains (the last supplied for each designation) whose
\* name is N, the one whose designation occurs first in the supplied
\* collection, and None exactly when no retained NEO has that name.
C7_FirstRetainedByName ==
    (call.op = "get_neo_by_name" /\ ValidArg(call.arg)) =>
        IF RetainedWithName(call.arg) # {}
        THEN /\ call.ret \in RetainedWithName(call.arg)
             /\ \A m \in RetainedWithName(call.arg) :
                    FirstOccurrence(call.ret) <= FirstOccurrence(m)
        ELSE call.ret = None

\* C7 witness: a name lookup returned one of two retained NEOs with that name.
C7_Witness ==
    /\ call.op = "get_neo_by_name" /\ ValidArg(call.arg)
    /\ call.ret # None
    /\ Cardinality(RetainedWithName(call.arg)) >= 2

\* the filter an option stands for: date an equality Date filter, start_date
\* and *_min a greater-or-equal filter, end_date and *_max a less-or-equal
\* filter of the matching kind, hazardous an equality Hazardous filter
OptionKind(k) ==
    CASE k \in {"date", "start_date", "end_date"} -> "Date"
      [] k \in {"distance_min", "distance_max"} -> "Distance"
      [] k \in {"velocity_min", "velocity_max"} -> "Velocity"
      [] k \in {"diameter_min", "diameter_max"} -> "Diameter"
      [] k = "hazardous" -> "Hazardous"
OptionOp(k) ==
    CASE k \in {"date", "hazardous"} -> "eq"
      [] k \in {"start_date", "distance_min", "velocity_min", "diameter_min"} -> "ge"
      [] k \in {"end_date", "distance_max", "velocity_max", "diameter_max"} -> "le"

RECURSIVE FiltersOfSetOptions(_, _)
FiltersOfSetOptions(o, j) ==
    IF j > Len(OptionNames) THEN <<>>
    ELSE LET k == OptionNames[j] IN
         (IF o[k] # PyNone
          THEN <<[kind |-> OptionKind(k), op |-> OptionOp(k), value |-> o[k][2]]>>
          ELSE <<>>) \o FiltersOfSetOptions(o, j + 1)

\* C8: create_filters returns, in the fixed order of the ten options, exactly
\* one filter for each option whose value is not None and none for an option
\* left at None, also for a bound of 0 and for hazardous = False.
C8_OneFilterPerSetOption ==
    call.op = "create_filters" => filters = FiltersOfSetOptions(call.arg, 1)

LimitPositive == gen.n # PyNone /\ gen.n[2] > 0

\* C9: limit(s, n) over the stream s of an unfiltered pipeline: what it has
\* yielded is always a prefix of s; when n > 0 it never yields more than n
\* items and has yielded exactly min(n, len(s)) when it ends; when n is None,
\* 0 or negative it has yielded all of s when it ends.
C9_LimitYieldsFirstMin ==
    gen.kind = "limit" =>
        /\ IsPrefix(out, Stored)
        /\ LimitPositive => Len(out) <= gen.n[2]
        /\ (LimitPositive /\ gen.ldone) => Len(out) = Min(gen.n[2], Len(Stored))
        /\ (~LimitPositive /\ gen.ldone) => out = Stored

\* C9 witness: limit with n = 1 over a stream of two items has ended after
\* yielding the first.
C9_Witness ==
    /\ gen.kind = "limit" /\ gen.ldone
    /\ gen.n = <<"int", 1>> /\ Len(Stored) = 2
    /\ out = <<1>>

\* C10: every record write_to_csv has written for an approach with a linked
\* NEO carries that NEO's designation, name, diameter and hazardous flag, and
\* the approach's own time, distance and velocity.
C10_CsvRowCarriesNeoFields ==
    csv.written =>
        \A j \in 1..Len(csv.rows) :
            LET a == approaches[csv.pulled[j]]
                neo == neos[a.neo]
                row == csv.rows[j]
            IN /\ row.designation = neo.designation
               /\ row.name = (IF neo.name # PyNone THEN neo.name[2] ELSE "")
               /\ row.diameter_km = FloatStr(neo.diameter)
               /\ row.potentially_hazardous = BoolStr(neo.hazardous)
               /\ row.datetime_utc = strftime(a.time)
               /\ row.distance_au = FloatStr(a.distance)
               /\ row.velocity_km_s = FloatStr(a.velocity)

\* the items the pipeline yields when pulled from its start to its end
PipelineStream ==
    IF gen.kind = "limit" /\ LimitPositive
    THEN SubSeq(Stored, 1, Min(gen.n[2], Len(Stored)))
    ELSE Stored

\* C11: write_to_csv and write_to_json each pull every item of the stream
\* once, to its end, without raising, and write one record per item in
\* stream order, also for approaches whose neo reference is null.
C11_SerializersConsumeStream ==
    /\ csv.written =>
          /\ ~csv.raised /\ pipeline_done(gen)
          /\ out = PipelineStream
          /\ Len(csv.rows) = Len(csv.pulled)
          /\ \A j \in 1..Len(csv.rows) :
                 csv.rows[j].datetime_utc = strftime(approaches[csv.pulled[j]].time)
    /\ json.written =>
          /\ ~json.raised /\ pipeline_done(gen)
          /\ out = PipelineStream
          /\ Len(json.records) = Len(json.pulled)
          /\ \A j \in 1..Len(json.records) :
                 json.records[j].datetime_utc = datetime_to_str(approaches[json.pulled[j]].time)

\* C12: once the NEODatabase is constructed, no step of a lookup, a query, a
\* pull or a serializer changes the designation index, the stored approaches,
\* any NEO's approaches or any approach's neo reference.
C12_CatalogUnchangedAfterConstruction ==
    [][ phase = "ready" => UNCHANGED <<neo_dict, neos, approaches>> ]_vars

\* C12 witness: on a constructed catalog with a linked approach a query
\* stream has been consumed in part.
C12_Witness ==
    /\ phase = "ready"
    /\ \E a \in 1..Len(approaches) : approaches[a].neo # None
    /\ gen.kind = "query" /\ ~gen.qdone /\ Len(out) = 1 /\ Len(approaches) >= 2

\* the number of items limit itself has pulled from the stream underneath
PulledByLimit == gen.pos - Len(rest)

\* C13 (as stated): with n > 0, limit pulls at most n items from the stream
\* underneath, and a later consumer of that stream gets every item after the
\* n-th.
C13_LimitPullsAtMostN ==
    (gen.kind = "limit" /\ LimitPositive) =>
        /\ PulledByLimit <= gen.n[2]
        /\ (gen.ldone /\ gen.qdone) =>
               rest = SubSeq(Stored, Min(gen.n[2], Len(Stored)) + 1, Len(Stored))

\* C13 (amended): with n > 0, limit pulls at most n + 1 items from the stream
\* underneath, exactly min(n + 1, len) once it has ended: the item after the
\* n-th is pulled and dropped, and a later consumer of that stream gets every
\* item after the (n + 1)-th.
C13_LimitPullsAtMostNPlusOne ==
    (gen.kind = "limit" /\ LimitPositive) =>
        /\ PulledByLimit <= gen.n[2] + 1
        /\ gen.ldone => PulledByLimit = Min(gen.n[2] + 1, Len(Stored))
        /\ (gen.ldone /\ gen.qdone) =>
               rest = SubSeq(Stored, Min(gen.n[2] + 1, Len(Stored)) + 1, Len(Stored))

\* C13 witness: limit with n = 1 over three items has ended after yielding the
\* first, and the later consumer got only the third.
C13_Witness ==
    /\ gen.kind = "limit" /\ gen.n = <<"int", 1>>
    /\ gen.ldone /\ gen.qdone /\ Len(Stored) = 3
    /\ out = <<1>> /\ rest = <<3>>

====
